---- MODULE Spec2Model ----
(***************************************************************************)
(* Model of the Tapo C225 PTZ controller (tapo_c225_controller.py), of the *)
(* multi-camera manager (tapo_multi_camera.py) and of the request handlers *)
(* of the REST server (tapo_rest_api.py).                                  *)
(*                                                                         *)
(* The pytapo client (self.tapo) and the camera behind it are external:    *)
(* every call on the client either succeeds or raises, chosen by the       *)
(* environment (a "fate"), and the only device state the code reads back   *)
(* is the privacy mode.  A handler runs to completion in one action and    *)
(* the client calls it attempted are kept, in order, in `calls`; the       *)
(* operations that can be interrupted, or that run beside one another,     *)
(* take one step per client call and keep their position in `threads`.     *)
(***************************************************************************)
EXTENDS Integers, Sequences, FiniteSets, TLC

\* ---------------------------------------------------------------- bounds
\* camera ids the manager is asked to add
NumCams == 2
\* client calls that raise during one batch or one apply_scene
MaxFailures == 1
\* camera ids named by the mappings passed to create_scene
MaxSceneCams == 1
\* presets in the list passed to start_patrol
MaxPatrolLen == 3
\* goto_preset calls a patrol is followed for
MaxGotos == 4
\* requests the REST server is followed for
MaxRequests == 2

\* ------------------------------------------------------ program constants
SettleDelay == 1
AngleMin == 0
AngleMax == 360

\* ------------------------------------------------------------ input sets
CamNames == <<"entrance", "warehouse", "office", "lobby">>
CamIds == {CamNames[i] : i \in 1..NumCams}
Hosts == {"h1", "h2"}
PresetIds == {"1", "2"}
PresetNames == {"door"}
SceneNames == {"day", "night"}
Offsets == {-10, 0, 10}
Angles == {-1, 0, 359, 360}

\* which of the client calls of one controller operation succeed:
\* rd = getPrivacyMode, wr = setPrivacyMode(False), cmd = the command itself
\* (no write is attempted after a failed read, so rd and wr are not both FALSE)
Fates == {f \in [rd : BOOLEAN, wr : BOOLEAN, cmd : BOOLEAN] : f.rd \/ f.wr}

VARIABLES
    controller,   \* a stand-alone TapoC225Controller: host, tapo, motor_capability
                  \* (in the REST server: the module global, <<>> for None)
    cameras,      \* TapoMultiCameraManager.cameras: insertion-ordered id -> controller
    privacy,      \* device state: host -> privacy mode is on
    scenes_file,  \* the document scenes.json on disk
    calls,        \* client calls attempted by the last operation, in order
    out,          \* per-camera lines printed by the last manager operation
    last,         \* the last operation: name, arguments, raised, return value
    threads       \* operations that are under way: thread -> where it stands

vars == <<controller, cameras, privacy, scenes_file, calls, out, last, threads>>

\* ----------------------------------------------------- the pytapo client
\* TapoC225Controller.__init__: no client yet, no capability
NewController(h) == [host |-> h, tapo |-> FALSE, motor_capability |-> FALSE]

\* one attempted call self.tapo.<op>(arg); with self.tapo None the attribute
\* access raises, so the attempt fails whatever the device would have done
ClientOk(c, fate) == c.tapo /\ fate

Call(c, op, arg, ok) ==
    [op |-> op, host |-> c.host, arg |-> arg, ok |-> ok, res |-> ""]

\* privacy = self.tapo.getPrivacyMode(); privacy.get("enabled") is "on" or "off"
PrivacyRead(c, priv, ok) ==
    [op |-> "getPrivacyMode", host |-> c.host, arg |-> "", ok |-> ok,
     res |-> IF ~ok THEN "" ELSE IF priv[c.host] THEN "on" ELSE "off"]

\* time.sleep(secs)
Sleep(c, secs) ==
    [op |-> "sleep", host |-> c.host, arg |-> secs, ok |-> TRUE, res |-> ""]

\* exceptions an operation can leave with ("" = it returned)
NoError == ""
ValueError == "ValueError"
ClientError == "Exception"

\* what a method without a return statement, or dict.get on a missing key, gives
None == "None"

\* the outcome of an operation of the controller
Outcome(cs, priv, raised, ret) ==
    [calls |-> cs, privacy |-> priv, raised |-> raised, ret |-> ret]

\* ---------------------------------------- TapoC225Controller operations
\* (mutant) no time.sleep(1) after the privacy-off write
ensure_privacy_mode_off_noDelay(c, priv, fate) ==
    LET rdOk == ClientOk(c, fate.rd)
        wrOk == ClientOk(c, fate.wr)
        rd == PrivacyRead(c, priv, rdOk)
        wr == Call(c, "setPrivacyMode", FALSE, wrOk)
    IN  IF ~rdOk THEN Outcome(<<rd>>, priv, NoError, FALSE)
        ELSE IF rd.res = "on"
             THEN IF wrOk
                  THEN Outcome(<<rd, wr>>, [priv EXCEPT ![c.host] = FALSE],
                               NoError, TRUE)
                  ELSE Outcome(<<rd, wr>>, priv, NoError, FALSE)
             ELSE Outcome(<<rd>>, priv, NoError, TRUE)

\* ensure_privacy_mode_off: try: read; if "on": write False, sleep(1);
\* return True / except Exception: return False
ensure_privacy_mode_off(c, priv, fate) ==
    LET rdOk == ClientOk(c, fate.rd)
        wrOk == ClientOk(c, fate.wr)
        rd == PrivacyRead(c, priv, rdOk)
        wr == Call(c, "setPrivacyMode", FALSE, wrOk)
    IN  IF ~rdOk THEN Outcome(<<rd>>, priv, NoError, FALSE)
        ELSE IF rd.res = "on"
             THEN IF wrOk
                  THEN Outcome(<<rd, wr, Sleep(c, SettleDelay)>>,
                               [priv EXCEPT ![c.host] = FALSE], NoError, TRUE)
                  ELSE Outcome(<<rd, wr>>, priv, NoError, FALSE)
             ELSE Outcome(<<rd>>, priv, NoError, TRUE)

\* a bare client command: result = self.tapo.<op>(arg); an exception propagates
Command(c, priv, fate, op, arg) ==
    LET ok == ClientOk(c, fate.cmd)
    IN  Outcome(<<Call(c, op, arg, ok)>>, priv,
                IF ok THEN NoError ELSE ClientError, ok)

\* (mutant) the command is sent first, the privacy check comes after it
Guarded_commandFirst(c, priv, fate, op, arg) ==
    LET k == Command(c, priv, fate, op, arg)
        g == ensure_privacy_mode_off(c, priv, fate)
    IN  Outcome(k.calls \o g.calls, g.privacy, k.raised, k.ret)

\* (mutant) if not self.ensure_privacy_mode_off(): raise
Guarded_guardRaises(c, priv, fate, op, arg) ==
    LET g == ensure_privacy_mode_off(c, priv, fate)
        k == Command(c, g.privacy, fate, op, arg)
    IN  IF g.ret
        THEN Outcome(g.calls \o k.calls, k.privacy, k.raised, k.ret)
        ELSE Outcome(g.calls, g.privacy, ClientError, FALSE)

\* self.ensure_privacy_mode_off() (result ignored), then the command
Guarded(c, priv, fate, op, arg) ==
    LET g == ensure_privacy_mode_off(c, priv, fate)
        k == Command(c, g.privacy, fate, op, arg)
    IN  Outcome(g.calls \o k.calls, k.privacy, k.raised, k.ret)

move(c, priv, fate, x, y) == Guarded(c, priv, fate, "moveMotor", <<x, y>>)

\* (mutant) 0 <= angle <= 360
ValidAngle_inclusive(angle) == AngleMin <= angle /\ angle <= AngleMax

\* 0 <= angle < 360
ValidAngle(angle) == AngleMin <= angle /\ angle < AngleMax

\* raise ValueError before anything else when not (0 <= angle < 360)
move_step(c, priv, fate, angle) ==
    IF ~ValidAngle(angle)
    THEN Outcome(<<>>, priv, ValueError, FALSE)
    ELSE Guarded(c, priv, fate, "moveMotorStep", angle)

save_preset(c, priv, fate, name) == Guarded(c, priv, fate, "savePreset", name)

\* self.tapo.setPreset(str(preset_id))
goto_preset(c, priv, fate, preset_id) ==
    Guarded(c, priv, fate, "setPreset", preset_id)

\* calibrate: self.tapo.calibrateMotor() and nothing else
calibrate(c, priv, fate) == Command(c, priv, fate, "calibrateMotor", "")

set_auto_track(c, priv, fate, enabled) ==
    Command(c, priv, fate, "setAutoTrackTarget", enabled)

\* enable_privacy_mode / disable_privacy_mode: self.tapo.setPrivacyMode(b)
set_privacy_mode(c, priv, fate, enabled) ==
    LET k == Command(c, priv, fate, "setPrivacyMode", enabled)
    IN  Outcome(k.calls,
                IF k.raised # NoError THEN priv
                ELSE [priv EXCEPT ![c.host] = enabled],
                k.raised, k.ret)

enable_privacy_mode(c, priv, fate) == set_privacy_mode(c, priv, fate, TRUE)

disable_privacy_mode(c, priv, fate) == set_privacy_mode(c, priv, fate, FALSE)

\* connect: self.tapo = Tapo(...), getBasicInfo(), _get_motor_capability();
\* an exception of the first two gives False, one of getMotorCapability is
\* swallowed.  step = "ctor" | "info" | "cap" | "ok": the call that raises, or none
ConnectSteps == {"ctor", "info", "cap", "ok"}

\* (mutant) _get_motor_capability leaves an empty capability behind when the
\* fetch raises
connect_capabilityAssumed(c, step) ==
    LET made == [c EXCEPT !.tapo = IF step = "ctor" THEN c.tapo ELSE TRUE]
        info == Call(c, "getBasicInfo", "", step # "info")
        cap == Call(c, "getMotorCapability", "", step # "cap")
    IN  [ctrl |-> [made EXCEPT !.motor_capability =
                       IF step \in {"cap", "ok"} THEN TRUE ELSE c.motor_capability],
         calls |-> IF step = "ctor" THEN <<>>
                   ELSE IF step = "info" THEN <<info>> ELSE <<info, cap>>,
         ret |-> step \in {"cap", "ok"}]

connect(c, step) ==
    LET made == [c EXCEPT !.tapo = IF step = "ctor" THEN c.tapo ELSE TRUE]
        info == Call(c, "getBasicInfo", "", step # "info")
        cap == Call(c, "getMotorCapability", "", step # "cap")
    IN  [ctrl |-> [made EXCEPT !.motor_capability =
                       IF step = "ok" THEN TRUE ELSE c.motor_capability],
         calls |-> IF step = "ctor" THEN <<>>
                   ELSE IF step = "info" THEN <<info>> ELSE <<info, cap>>,
         ret |-> step \in {"cap", "ok"}]

\* ------------------------------------- operations on the lone controller
Last(op, arg, o) == [op |-> op, arg |-> arg, raised |-> o.raised, ret |-> o.ret]

Ran(op, arg, o) ==
    /\ privacy' = o.privacy
    /\ calls' = o.calls
    /\ last' = Last(op, arg, o)

Connect(step) ==
    /\ controller' = connect(controller, step).ctrl
    /\ calls' = connect(controller, step).calls
    /\ last' = [op |-> "connect", arg |-> step, raised |-> NoError,
                ret |-> connect(controller, step).ret]
    /\ UNCHANGED <<cameras, privacy, scenes_file, out, threads>>

Move(fate, x, y) ==
    /\ Ran("move", <<x, y>>, move(controller, privacy, fate, x, y))
    /\ UNCHANGED <<controller, cameras, scenes_file, out, threads>>

MoveStep(fate, angle) ==
    /\ Ran("move_step", angle, move_step(controller, privacy, fate, angle))
    /\ UNCHANGED <<controller, cameras, scenes_file, out, threads>>

SavePreset(fate, name) ==
    /\ Ran("save_preset", name, save_preset(controller, privacy, fate, name))
    /\ UNCHANGED <<controller, cameras, scenes_file, out, threads>>

GotoPreset(fate, preset_id) ==
    /\ Ran("goto_preset", preset_id,
           goto_preset(controller, privacy, fate, preset_id))
    /\ UNCHANGED <<controller, cameras, scenes_file, out, threads>>

Calibrate(fate) ==
    /\ Ran("calibrate", "", calibrate(controller, privacy, fate))
    /\ UNCHANGED <<controller, cameras, scenes_file, out, threads>>

EnablePrivacyMode(fate) ==
    /\ Ran("enable_privacy_mode", "",
           enable_privacy_mode(controller, privacy, fate))
    /\ UNCHANGED <<controller, cameras, scenes_file, out, threads>>

DisablePrivacyMode(fate) ==
    /\ Ran("disable_privacy_mode", "",
           disable_privacy_mode(controller, privacy, fate))
    /\ UNCHANGED <<controller, cameras, scenes_file, out, threads>>

NoFile == [kind |-> "missing", text |-> <<>>]

NoLast == [op |-> "none", arg |-> "", raised |-> NoError, ret |-> FALSE]

\* no operation is under way: the handlers below run to completion in one step
NoThreads == <<>>

InitCtl ==
    /\ controller \in {NewController(h) : h \in Hosts}
    /\ cameras = <<>>
    /\ privacy \in [Hosts -> BOOLEAN]
    /\ scenes_file = NoFile
    /\ calls = <<>>
    /\ out = <<>>
    /\ last = NoLast
    /\ threads = NoThreads

NextCtl ==
    \/ \E step \in ConnectSteps : Connect(step)
    \/ \E fate \in Fates, x, y \in Offsets : Move(fate, x, y)
    \/ \E fate \in Fates, angle \in Angles : MoveStep(fate, angle)
    \/ \E fate \in Fates, name \in PresetNames : SavePreset(fate, name)
    \/ \E fate \in Fates, p \in PresetIds : GotoPreset(fate, p)
    \/ \E fate \in Fates : Calibrate(fate)
    \/ \E fate \in Fates : EnablePrivacyMode(fate)
    \/ \E fate \in Fates : DisablePrivacyMode(fate)

SpecCtl == InitCtl /\ [][NextCtl]_vars

\* ------------------------------------------ start_patrol, call by call
\* Ctrl+C: raised in the main thread between any two of its steps; it is not
\* an Exception, so the except clause of ensure_privacy_mode_off lets it pass
KeyboardInterrupt == "KeyboardInterrupt"

\* what a client call that was made does to the device
Effect(priv, call) ==
    IF call.op = "setPrivacyMode" /\ call.ok
    THEN [priv EXCEPT ![call.host] = call.arg]
    ELSE priv

\* preset_ids (at least one preset) and interval_seconds
PatrolSeqs == UNION {[1..n -> PresetIds] : n \in 1..MaxPatrolLen}

PatrolIntervals == {1, 10}

\* start_patrol is entered: the print before the try has not run yet
PatrolFrame(preset_ids, interval) ==
    [op |-> "start_patrol", phase |-> "entry", preset_ids |-> preset_ids,
     interval |-> interval, i |-> 1, plan |-> <<>>, raised |-> NoError,
     exc |-> NoError, gotos |-> 0, signal |-> FALSE, at |-> ""]

Running == {"goto", "call", "dwell"}

\* (mutant) the loop starts over from the first preset after every step
NextIndex_fromFirst(i, n) == 1

\* while True: for preset_id in preset_ids: after the last comes the first
NextIndex(i, n) == (i % n) + 1

\* (mutant) try: self.goto_preset(preset_id) / except Exception: pass
AfterGoto_swallowed(f, plan, raised) ==
    [f EXCEPT !.plan = plan,
              !.phase = IF plan # <<>> THEN "call" ELSE "dwell"]

\* the frame after a call of goto_preset: more calls to make, or goto_preset
\* returned (the dwell is next), or its exception leaves start_patrol, whose
\* only except clause is for KeyboardInterrupt
AfterGoto(f, plan, raised) ==
    [f EXCEPT !.plan = plan,
              !.phase = IF plan # <<>> THEN "call"
                        ELSE IF raised # NoError THEN "failed" ELSE "dwell",
              !.raised = IF plan = <<>> THEN raised ELSE NoError]

\* (mutant) the signal only sets a flag that is tested after the dwell
Interrupted_afterDwell(f) ==
    IF f.phase = "entry"
    THEN [f EXCEPT !.signal = TRUE, !.at = f.phase, !.phase = "interrupted",
                   !.raised = KeyboardInterrupt]
    ELSE IF f.phase = "dwell"
         THEN [f EXCEPT !.signal = TRUE, !.at = f.phase, !.phase = "stopped"]
         ELSE [f EXCEPT !.signal = TRUE, !.at = f.phase]

\* KeyboardInterrupt is raised where the thread stands: inside the try it
\* abandons what was under way and start_patrol returns; before the try it
\* leaves start_patrol
Interrupted(f) ==
    IF f.phase = "entry"
    THEN [f EXCEPT !.signal = TRUE, !.at = f.phase, !.phase = "interrupted",
                   !.raised = KeyboardInterrupt]
    ELSE [f EXCEPT !.signal = TRUE, !.at = f.phase, !.phase = "stopped",
                   !.plan = <<>>, !.exc = NoError]

Main == threads.main

StartPatrol(preset_ids, interval) ==
    /\ threads = NoThreads
    /\ controller.tapo
    /\ threads' = [main |-> PatrolFrame(preset_ids, interval)]
    /\ calls' = <<>>
    /\ last' = [op |-> "start_patrol", arg |-> <<preset_ids, interval>>,
                raised |-> NoError, ret |-> None]
    /\ UNCHANGED <<controller, cameras, privacy, scenes_file, out>>

InPatrol == threads # NoThreads /\ Main.op = "start_patrol"

\* print(...); try: while True: for preset_id in preset_ids:
PatrolEnter ==
    /\ InPatrol /\ Main.phase = "entry"
    /\ threads' = [threads EXCEPT !.main.phase = "goto"]
    /\ UNCHANGED <<controller, cameras, privacy, scenes_file, calls, out, last>>

\* self.goto_preset(preset_id) up to and including its first client call
PatrolGoto(fate) ==
    /\ InPatrol /\ Main.phase = "goto"
    /\ Main.gotos < MaxGotos
    /\ \E o \in {goto_preset(controller, privacy, fate, Main.preset_ids[Main.i])} :
          /\ calls' = Append(calls, Head(o.calls))
          /\ privacy' = Effect(privacy, Head(o.calls))
          /\ threads' = [threads EXCEPT !.main =
                 AfterGoto([Main EXCEPT !.gotos = @ + 1, !.exc = o.raised],
                           Tail(o.calls), o.raised)]
          /\ last' = [last EXCEPT !.raised = threads'.main.raised]
    /\ UNCHANGED <<controller, cameras, scenes_file, out>>

\* the next client call of the goto_preset that is under way; exc is the
\* exception its last call raises, if any
PatrolCall ==
    /\ InPatrol /\ Main.phase = "call"
    /\ calls' = Append(calls, Head(Main.plan))
    /\ privacy' = Effect(privacy, Head(Main.plan))
    /\ threads' = [threads EXCEPT !.main = AfterGoto(Main, Tail(Main.plan), Main.exc)]
    /\ last' = [last EXCEPT !.raised = threads'.main.raised]
    /\ UNCHANGED <<controller, cameras, scenes_file, out>>

\* print(...); time.sleep(interval_seconds); the for loop moves on
PatrolDwell ==
    /\ InPatrol /\ Main.phase = "dwell"
    /\ calls' = Append(calls, Sleep(controller, Main.interval))
    /\ threads' = [threads EXCEPT !.main.phase = "goto",
                                  !.main.i = NextIndex(@, Len(Main.preset_ids))]
    /\ UNCHANGED <<controller, cameras, privacy, scenes_file, out, last>>

\* Ctrl+C while start_patrol is under way
PatrolInterrupt ==
    /\ InPatrol /\ Main.phase \in Running \cup {"entry"}
    /\ ~Main.signal
    /\ threads' = [threads EXCEPT !.main = Interrupted(Main)]
    /\ last' = [last EXCEPT !.raised = threads'.main.raised]
    /\ UNCHANGED <<controller, cameras, privacy, scenes_file, calls, out>>

\* a controller that connected, before start_patrol is called
InitPatrol ==
    /\ controller \in {connect(NewController("h1"), step).ctrl : step \in {"cap", "ok"}}
    /\ cameras = <<>>
    /\ privacy \in [Hosts -> BOOLEAN]
    /\ scenes_file = NoFile
    /\ calls = <<>>
    /\ out = <<>>
    /\ last = NoLast
    /\ threads = NoThreads

NextPatrol ==
    \/ \E preset_ids \in PatrolSeqs, interval \in PatrolIntervals :
          StartPatrol(preset_ids, interval)
    \/ PatrolEnter
    \/ \E fate \in Fates : PatrolGoto(fate)
    \/ PatrolCall
    \/ PatrolDwell
    \/ PatrolInterrupt

SpecPatrol == InitPatrol /\ [][NextPatrol]_vars

\* ------------------------------------------- tapo_rest_api.py: requests
\* The Flask server hands every request to a thread of its own; the handlers
\* share the module global `controller` (here <<>> for None, <<c>> for a
\* controller) and take no lock.  A handler takes one step for
\* get_controller() and one step for each client call of the operation.
TapoHost == "h1"

RestThreads == {"t1", "t2"}

\* the requests followed here: POST /move, POST /calibrate and POST
\* /privacy_mode, with their bodies
RestRequests ==
    {[op |-> "move", arg |-> <<10, 0>>], [op |-> "calibrate", arg |-> ""],
     [op |-> "privacy_mode", arg |-> TRUE], [op |-> "privacy_mode", arg |-> FALSE]}

IdleFrame(served) ==
    [op |-> "idle", arg |-> "", phase |-> "idle", ctrl |-> <<>>, plan |-> <<>>,
     exc |-> NoError, made |-> 0, served |-> served]

\* what connect() prints: the failure line exactly when it returns False
ConnectLine(c, ret) == [cam |-> c.host, failed |-> ~ret, connected |-> ret]

\* get_controller: if controller is None: controller = TapoC225Controller(...)
\* and, when connect() is False, raise Exception; return controller
get_controller(global, step) ==
    IF global = <<>>
    THEN LET r == connect(NewController(TapoHost), step)
         IN  [global |-> <<r.ctrl>>, calls |-> r.calls,
              out |-> <<ConnectLine(r.ctrl, r.ret)>>,
              raised |-> IF r.ret THEN NoError ELSE ClientError]
    ELSE [global |-> global, calls |-> <<>>, out |-> <<>>, raised |-> NoError]

\* the controller method a handler calls on ctrl
RestOp(req, c, priv, fate) ==
    CASE req.op = "move" -> move(c, priv, fate, req.arg[1], req.arg[2])
      [] req.op = "calibrate" -> calibrate(c, priv, fate)
      [] req.op = "privacy_mode" ->
            IF req.arg THEN enable_privacy_mode(c, priv, fate)
            ELSE disable_privacy_mode(c, priv, fate)

Served == threads["t1"].served + threads["t2"].served

\* a request arrives and its handler starts on thread t
RestRequest(t, req) ==
    /\ threads[t].phase = "idle"
    /\ Served < MaxRequests
    /\ threads' = [threads EXCEPT ![t] =
           [IdleFrame(threads[t].served + 1) EXCEPT
               !.op = req.op, !.arg = req.arg, !.phase = "get"]]
    /\ UNCHANGED <<controller, cameras, privacy, scenes_file, calls, out, last>>

\* ctrl = get_controller(); its exception is the handler's 500 response
RestGetController(t, step) ==
    /\ threads[t].phase = "get"
    /\ \E r \in {get_controller(controller, step)} :
          /\ controller' = r.global
          /\ calls' = calls \o r.calls
          /\ out' = out \o r.out
          /\ last' = [op |-> "get_controller", arg |-> t, raised |-> r.raised,
                      ret |-> IF r.raised # NoError THEN <<>> ELSE r.global]
          /\ threads' = [threads EXCEPT ![t] =
                 IF r.raised # NoError THEN IdleFrame(threads[t].served)
                 ELSE [threads[t] EXCEPT !.phase = "run", !.ctrl = r.global]]
    /\ UNCHANGED <<cameras, privacy, scenes_file>>

\* the frame after a client call of the handler: more calls to make, or the
\* handler answers (200, or 500 from its except Exception) and the thread is free
AfterRestCall(f, plan, exc) ==
    IF plan = <<>> THEN IdleFrame(f.served)
    ELSE [f EXCEPT !.phase = "call", !.plan = plan, !.exc = exc, !.made = @ + 1]

\* the handler calls the controller method: up to and including its first
\* client call
RestRun(t, fate) ==
    /\ threads[t].phase = "run"
    /\ \E o \in {RestOp(threads[t], threads[t].ctrl[1], privacy, fate)} :
          /\ calls' = Append(calls, Head(o.calls))
          /\ privacy' = Effect(privacy, Head(o.calls))
          /\ threads' = [threads EXCEPT ![t] =
                 AfterRestCall(threads[t], Tail(o.calls), o.raised)]
          /\ last' = IF Tail(o.calls) # <<>> THEN last
                     ELSE [op |-> threads[t].op, arg |-> threads[t].arg,
                           raised |-> o.raised, ret |-> o.raised = NoError]
    /\ UNCHANGED <<controller, cameras, scenes_file, out>>

\* the next client call of the controller method that is under way on t
RestCall(t) ==
    /\ threads[t].phase = "call"
    /\ calls' = Append(calls, Head(threads[t].plan))
    /\ privacy' = Effect(privacy, Head(threads[t].plan))
    /\ threads' = [threads EXCEPT ![t] =
           AfterRestCall(threads[t], Tail(threads[t].plan), threads[t].exc)]
    /\ last' = IF Tail(threads[t].plan) # <<>> THEN last
               ELSE [op |-> threads[t].op, arg |-> threads[t].arg,
                     raised |-> threads[t].exc, ret |-> threads[t].exc = NoError]
    /\ UNCHANGED <<controller, cameras, scenes_file, out>>

\* the server has started: no controller yet, no request under way
InitRest ==
    /\ controller = <<>>
    /\ cameras = <<>>
    /\ privacy \in [Hosts -> BOOLEAN]
    /\ scenes_file = NoFile
    /\ calls = <<>>
    /\ out = <<>>
    /\ last = NoLast
    /\ threads = [t \in RestThreads |-> IdleFrame(0)]

NextRest ==
    \/ \E t \in RestThreads, req \in RestRequests : RestRequest(t, req)
    \/ \E t \in RestThreads, step \in ConnectSteps : RestGetController(t, step)
    \/ \E t \in RestThreads, fate \in Fates : RestRun(t, fate)
    \/ \E t \in RestThreads : RestCall(t)

SpecRest == InitRest /\ [][NextRest]_vars

\* --------------------------------------------- TapoMultiCameraManager
\* self.cameras is a dict: keys keep their insertion order, assigning to a
\* key that is present replaces its value in place
Entry(id, c) == [id |-> id, ctrl |-> c]

Keys(d) == {d[i].id : i \in 1..Len(d)}

DictSet(d, id, c) ==
    IF id \in Keys(d)
    THEN [i \in 1..Len(d) |-> IF d[i].id = id THEN Entry(id, c) ELSE d[i]]
    ELSE Append(d, Entry(id, c))

DictDel(d, id) == SelectSeq(d, LAMBDA e : e.id # id)

\* (mutant) an id that is present keeps its controller
add_camera_keepsExisting(cams, id, host, step) ==
    LET r == connect(NewController(host), step)
    IN  [cameras |-> IF r.ret /\ id \notin Keys(cams)
                     THEN DictSet(cams, id, r.ctrl) ELSE cams,
         calls |-> r.calls,
         ret |-> r.ret]

\* add_camera: a new controller; registered only when connect() returns True
add_camera(cams, id, host, step) ==
    LET r == connect(NewController(host), step)
    IN  [cameras |-> IF r.ret THEN DictSet(cams, id, r.ctrl) ELSE cams,
         calls |-> r.calls,
         ret |-> r.ret]

remove_camera(cams, id) == IF id \in Keys(cams) THEN DictDel(cams, id) ELSE cams

\* get_camera: self.cameras.get(camera_id)
get_camera(cams, id) ==
    IF id \in Keys(cams)
    THEN cams[CHOOSE i \in 1..Len(cams) : cams[i].id = id].ctrl
    ELSE None

\* the operation a batch runs on each controller
CtrlOp(op, c, priv, fate, arg) ==
    CASE op = "calibrate" -> calibrate(c, priv, fate)
      [] op = "enable_privacy_mode" -> enable_privacy_mode(c, priv, fate)
      [] op = "disable_privacy_mode" -> disable_privacy_mode(c, priv, fate)
      [] op = "set_auto_track" -> set_auto_track(c, priv, fate, arg)
      [] op = "goto_preset" -> goto_preset(c, priv, fate, arg)
      [] op = "getPresets" -> Command(c, priv, fate, "getPresets", "")

\* the line printed for one camera: its id and whether its operation raised
Line(id, o) == [cam |-> id, failed |-> o.raised # NoError, connected |-> TRUE]

BatchOutcome(cs, priv, lines) == [calls |-> cs, privacy |-> priv, out |-> lines]

\* one turn of the loop: the camera's calls and its printed line are added
Turn(acc, id, o) ==
    BatchOutcome(acc.calls \o o.calls, o.privacy, Append(acc.out, Line(id, o)))

\* for cam_id, ctrl in self.cameras.items(): try: ctrl.<op>(arg)
\*                                           except Exception as e: print(...)
\* from the i-th entry on; fates[i] is the fate of the i-th camera's calls
RECURSIVE ForEachFrom(_, _, _, _, _, _)
ForEachFrom(cams, i, acc, fates, op, arg) ==
    IF i > Len(cams)
    THEN acc
    ELSE ForEachFrom(cams, i + 1,
                     Turn(acc, cams[i].id,
                          CtrlOp(op, cams[i].ctrl, acc.privacy, fates[i], arg)),
                     fates, op, arg)

\* (mutant) one try around the whole loop: the first exception ends the batch
RECURSIVE UntilFirstFailure(_, _, _, _, _, _)
UntilFirstFailure(cams, i, acc, fates, op, arg) ==
    IF i > Len(cams) \/ (acc.out # <<>> /\ acc.out[Len(acc.out)].failed)
    THEN acc
    ELSE UntilFirstFailure(cams, i + 1,
                           Turn(acc, cams[i].id,
                                CtrlOp(op, cams[i].ctrl, acc.privacy, fates[i], arg)),
                           fates, op, arg)

ForEachCamera_tryAroundLoop(cams, priv, fates, op, arg) ==
    UntilFirstFailure(cams, 1, BatchOutcome(<<>>, priv, <<>>), fates, op, arg)

ForEachCamera(cams, priv, fates, op, arg) ==
    ForEachFrom(cams, 1, BatchOutcome(<<>>, priv, <<>>), fates, op, arg)

calibrate_all(cams, priv, fates) ==
    ForEachCamera(cams, priv, fates, "calibrate", "")

enable_privacy_all(cams, priv, fates) ==
    ForEachCamera(cams, priv, fates, "enable_privacy_mode", "")

disable_privacy_all(cams, priv, fates) ==
    ForEachCamera(cams, priv, fates, "disable_privacy_mode", "")

set_auto_track_all(cams, priv, fates, enabled) ==
    ForEachCamera(cams, priv, fates, "set_auto_track", enabled)

goto_preset_all(cams, priv, fates, preset_id) ==
    ForEachCamera(cams, priv, fates, "goto_preset", preset_id)

\* what getPresets() of a camera returns, named by the camera's host; the
\* empty dict stored for a camera whose call raised
PresetsOf(c) == c.host
EmptyDict == "{}"

\* (mutant) no all_presets[cam_id] = {} in the except branch
get_all_presets_withoutFailed(cams, priv, fates) ==
    LET b == ForEachCamera(cams, priv, fates, "getPresets", "")
        okIds == {b.out[i].cam : i \in {j \in 1..Len(b.out) : ~b.out[j].failed}}
    IN  [calls |-> b.calls, privacy |-> b.privacy, out |-> b.out,
         ret |-> [id \in okIds |->
                     LET i == CHOOSE j \in 1..Len(cams) : cams[j].id = id
                     IN  PresetsOf(cams[i].ctrl)]]

\* get_all_presets: all_presets[cam_id] = ctrl.tapo.getPresets(), or {} when
\* the call raises; returns all_presets
get_all_presets(cams, priv, fates) ==
    LET b == ForEachCamera(cams, priv, fates, "getPresets", "")
    IN  [calls |-> b.calls, privacy |-> b.privacy, out |-> b.out,
         ret |-> [id \in Keys(cams) |->
                     LET i == CHOOSE j \in 1..Len(cams) : cams[j].id = id
                     IN  IF b.out[i].failed THEN EmptyDict ELSE PresetsOf(cams[i].ctrl)]]

\* ------------------------------------------ operations on the manager
AddCamera(id, host, step) ==
    \E r \in {add_camera(cameras, id, host, step)} :
        /\ cameras' = r.cameras
        /\ calls' = r.calls
        /\ out' = <<>>
        /\ last' = [op |-> "add_camera", arg |-> <<id, host>>, raised |-> NoError,
                    ret |-> r.ret]
        /\ UNCHANGED <<controller, privacy, scenes_file, threads>>

RemoveCamera(id) ==
    /\ cameras' = remove_camera(cameras, id)
    /\ calls' = <<>>
    /\ out' = <<>>
    /\ last' = [op |-> "remove_camera", arg |-> id, raised |-> NoError, ret |-> FALSE]
    /\ UNCHANGED <<controller, privacy, scenes_file, threads>>

RanBatch(op, arg, b, ret) ==
    /\ privacy' = b.privacy
    /\ calls' = b.calls
    /\ out' = b.out
    /\ last' = [op |-> op, arg |-> arg, raised |-> NoError, ret |-> ret]
    /\ UNCHANGED <<controller, cameras, scenes_file, threads>>


\* the number of client calls a choice of fates lets fail
Failures(fates) ==
    Cardinality({x \in (DOMAIN fates) \X {"rd", "wr", "cmd"} : ~fates[x[1]][x[2]]})

\* fates of a batch: one per registered camera, at most MaxFailures failing
\* calls in all; the operations that make a single client call only read cmd
BatchFates == {fates \in [1..Len(cameras) -> Fates] : Failures(fates) <= MaxFailures}

CmdFates ==
    {fates \in [1..Len(cameras) -> {f \in Fates : f.rd /\ f.wr}] :
        Failures(fates) <= MaxFailures}

\* the deployment the manager is run against: the address each camera id is
\* added with
HostTable == <<"h1", "h2", "h1", "h2">>

\* the manager's environment in the batch specification: a camera that
\* connects also answers getMotorCapability
FleetConnectSteps == {"ctor", "info", "ok"}

CalibrateAll(fates) ==
    \E b \in {calibrate_all(cameras, privacy, fates)} :
        RanBatch("calibrate_all", "", b, None)

EnablePrivacyAll(fates) ==
    \E b \in {enable_privacy_all(cameras, privacy, fates)} :
        RanBatch("enable_privacy_all", "", b, None)

DisablePrivacyAll(fates) ==
    \E b \in {disable_privacy_all(cameras, privacy, fates)} :
        RanBatch("disable_privacy_all", "", b, None)

SetAutoTrackAll(fates, enabled) ==
    \E b \in {set_auto_track_all(cameras, privacy, fates, enabled)} :
        RanBatch("set_auto_track_all", enabled, b, None)

GotoPresetAll(fates, preset_id) ==
    \E b \in {goto_preset_all(cameras, privacy, fates, preset_id)} :
        RanBatch("goto_preset_all", preset_id, b, None)

GetAllPresets(fates) ==
    \E b \in {get_all_presets(cameras, privacy, fates)} :
        RanBatch("get_all_presets", "", b, b.ret)

InitFleet ==
    /\ controller = NewController("h1")
    /\ cameras = <<>>
    /\ privacy \in [Hosts -> BOOLEAN]
    /\ scenes_file = NoFile
    /\ calls = <<>>
    /\ out = <<>>
    /\ last = NoLast
    /\ threads = NoThreads

NextFleet ==
    \/ \E i \in 1..NumCams, step \in FleetConnectSteps :
          AddCamera(CamNames[i], HostTable[i], step)
    \/ \E id \in CamIds : RemoveCamera(id)
    \/ \E fates \in CmdFates : CalibrateAll(fates)
    \/ \E fates \in CmdFates : EnablePrivacyAll(fates)
    \/ \E fates \in CmdFates : DisablePrivacyAll(fates)
    \/ \E fates \in CmdFates, enabled \in BOOLEAN : SetAutoTrackAll(fates, enabled)
    \/ \E fates \in BatchFates, p \in PresetIds : GotoPresetAll(fates, p)
    \/ \E fates \in CmdFates : GetAllPresets(fates)

SpecFleet == InitFleet /\ [][NextFleet]_vars

\* ------------------------------------------ a batch, call by call
\* The loop of a batch method on the main thread, one step per client call.
\* The methods pass no timeout to the client, so a client call returns when
\* the camera answers or the connection fails; `responds` says whether the
\* camera the loop has reached does either.
BatchFrame(op, arg) ==
    [op |-> op, arg |-> arg, phase |-> "next", i |-> 1, plan |-> <<>>,
     exc |-> NoError, responds |-> TRUE]

InBatch == threads # NoThreads /\ Main.op \in {"calibrate_all", "goto_preset_all"}

BatchCtrlOp(op) == IF op = "calibrate_all" THEN "calibrate" ELSE "goto_preset"

StartBatch(op, arg) ==
    /\ threads = NoThreads
    /\ threads' = [main |-> BatchFrame(op, arg)]
    /\ calls' = <<>>
    /\ out' = <<>>
    /\ UNCHANGED <<controller, cameras, privacy, scenes_file, last>>

\* for cam_id, ctrl in self.cameras.items(): try: ctrl.<op>(...)
BatchNext(fate, responds) ==
    /\ InBatch /\ Main.phase = "next"
    /\ Main.i <= Len(cameras)
    /\ \E o \in {CtrlOp(BatchCtrlOp(Main.op), cameras[Main.i].ctrl, privacy, fate,
                         Main.arg)} :
          threads' = [threads EXCEPT !.main.phase = "call", !.main.plan = o.calls,
                                    !.main.exc = o.raised,
                                    !.main.responds = responds]
    /\ UNCHANGED <<controller, cameras, privacy, scenes_file, calls, out, last>>

\* the next client call for the camera the loop has reached returns, or
\* raises; after the last one the camera's line is printed and the loop
\* moves on
BatchCall ==
    /\ InBatch /\ Main.phase = "call"
    /\ Main.responds
    /\ calls' = Append(calls, Head(Main.plan))
    /\ privacy' = Effect(privacy, Head(Main.plan))
    /\ IF Tail(Main.plan) # <<>>
       THEN /\ threads' = [threads EXCEPT !.main.plan = Tail(@)]
            /\ out' = out
       ELSE /\ threads' = [threads EXCEPT !.main.plan = <<>>, !.main.phase = "next",
                                          !.main.i = @ + 1]
            /\ out' = Append(out, Line(cameras[Main.i].id, [raised |-> Main.exc]))
    /\ UNCHANGED <<controller, cameras, scenes_file, last>>

\* the loop is over: the method returns
BatchReturn ==
    /\ InBatch /\ Main.phase = "next"
    /\ Main.i > Len(cameras)
    /\ threads' = NoThreads
    /\ last' = [op |-> Main.op, arg |-> Main.arg, raised |-> NoError, ret |-> None]
    /\ UNCHANGED <<controller, cameras, privacy, scenes_file, calls, out>>

BatchSteps ==
    \/ \E fate \in Fates, responds \in BOOLEAN : BatchNext(fate, responds)
    \/ BatchCall
    \/ BatchReturn

NextBatch ==
    \/ \E i \in 1..NumCams, step \in {"ctor", "ok"} :
          threads = NoThreads /\ AddCamera(CamNames[i], HostTable[i], step)
    \/ \E id \in CamIds : threads = NoThreads /\ RemoveCamera(id)
    \/ StartBatch("calibrate_all", "")
    \/ \E p \in PresetIds : StartBatch("goto_preset_all", p)
    \/ BatchSteps

\* the main thread goes on whenever its next step can be taken
SpecBatch == InitFleet /\ [][NextBatch]_vars /\ WF_vars(BatchSteps)

\* the registry alone: cameras are added at any address, with any outcome of
\* connect, and removed
NextRegistry ==
    \/ \E id \in CamIds, host \in Hosts, step \in ConnectSteps :
          AddCamera(id, host, step)
    \/ \E id \in CamIds : RemoveCamera(id)

SpecRegistry == InitFleet /\ [][NextRegistry]_vars

\* ------------------------------------------------------- scenes.json
\* a dict with string keys: entries in insertion order, assignment to a key
\* that is present replaces its value in place
Has(d, k) == \E i \in 1..Len(d) : d[i].k = k

Get(d, k) == d[CHOOSE i \in 1..Len(d) : d[i].k = k].v

Put(d, k, v) ==
    IF Has(d, k)
    THEN [i \in 1..Len(d) |-> IF d[i].k = k THEN [k |-> k, v |-> v] ELSE d[i]]
    ELSE Append(d, [k |-> k, v |-> v])

\* json.dump: an object is written as its members <<key, value>> in order
DumpMapping(m) == [i \in 1..Len(m) |-> <<m[i].k, m[i].v>>]

json_dump(scenes) ==
    [i \in 1..Len(scenes) |-> <<scenes[i].k, DumpMapping(scenes[i].v)>>]

\* json.load: the members are put into a fresh dict one after the other
RECURSIVE FromMembers(_, _)
FromMembers(members, d) ==
    IF members = <<>>
    THEN d
    ELSE FromMembers(Tail(members), Put(d, Head(members)[1], Head(members)[2]))

json_load(text) ==
    LET top == FromMembers(text, <<>>)
    IN  [i \in 1..Len(top) |-> [k |-> top[i].k, v |-> FromMembers(top[i].v, <<>>)]]

\* the file: missing, a JSON document, or bytes json.load cannot parse
JsonFile(text) == [kind |-> "json", text |-> text]
BrokenFile == [kind |-> "broken", text |-> <<>>]

\* what the file system does to one handler: nothing, an OSError other than
\* FileNotFoundError on the read, an OSError on open(..., 'w'), or an error
\* while json.dump writes into the truncated file
IoFates == {"ok", "read_error", "open_error", "write_error"}

OSError == "OSError"
JSONDecodeError == "JSONDecodeError"

\* (mutant) no except FileNotFoundError around the read
ReadScenes_noExcept(file, io) ==
    IF io = "read_error" /\ file.kind # "missing"
    THEN [raised |-> OSError, found |-> TRUE, dict |-> <<>>]
    ELSE IF file.kind = "missing"
    THEN [raised |-> "FileNotFoundError", found |-> FALSE, dict |-> <<>>]
    ELSE IF file.kind = "broken"
    THEN [raised |-> JSONDecodeError, found |-> TRUE, dict |-> <<>>]
    ELSE [raised |-> NoError, found |-> TRUE, dict |-> json_load(file.text)]

\* with open(scenes_file, 'r') as f: scenes = json.load(f)
\* dict = the document, found = FALSE for FileNotFoundError
ReadScenes(file, io) ==
    IF io = "read_error" /\ file.kind # "missing"
    THEN [raised |-> OSError, found |-> TRUE, dict |-> <<>>]
    ELSE IF file.kind = "missing"
    THEN [raised |-> NoError, found |-> FALSE, dict |-> <<>>]
    ELSE IF file.kind = "broken"
    THEN [raised |-> JSONDecodeError, found |-> TRUE, dict |-> <<>>]
    ELSE [raised |-> NoError, found |-> TRUE, dict |-> json_load(file.text)]

\* with open(scenes_file, 'w') as f: json.dump(scenes, f, ...)
WriteScenes(file, scenes, io) ==
    IF io = "open_error" THEN [raised |-> OSError, file |-> file]
    ELSE IF io = "write_error" THEN [raised |-> OSError, file |-> BrokenFile]
    ELSE [raised |-> NoError, file |-> JsonFile(json_dump(scenes))]

\* (mutant) scenes.setdefault(scene_name, camera_presets): no overwrite
create_scene_keepsExisting(file, scene_name, camera_presets, io) ==
    LET r == ReadScenes(file, io)
        d == IF Has(r.dict, scene_name) THEN r.dict
             ELSE Put(r.dict, scene_name, camera_presets)
        w == WriteScenes(file, d, io)
    IN  IF r.raised # NoError
        THEN [raised |-> r.raised, file |-> file]
        ELSE [raised |-> w.raised, file |-> w.file]

\* (mutant) scenes = {} without reading the file first
create_scene_fromEmpty(file, scene_name, camera_presets, io) ==
    LET r == ReadScenes(file, io)
        w == WriteScenes(file, Put(<<>>, scene_name, camera_presets), io)
    IN  IF r.raised # NoError
        THEN [raised |-> r.raised, file |-> file]
        ELSE [raised |-> w.raised, file |-> w.file]

\* create_scene: read (a missing file is {}), scenes[scene_name] =
\* camera_presets, write everything back
create_scene(file, scene_name, camera_presets, io) ==
    LET r == ReadScenes(file, io)
        w == WriteScenes(file, Put(r.dict, scene_name, camera_presets), io)
    IN  IF r.raised # NoError
        THEN [raised |-> r.raised, file |-> file]
        ELSE [raised |-> w.raised, file |-> w.file]

\* list_scenes: prints every scene with its mapping and returns the names;
\* a missing file gives []
list_scenes(file, io) ==
    LET r == ReadScenes(file, io)
    IN  [raised |-> r.raised,
         printed |-> r.dict,
         ret |-> [i \in 1..Len(r.dict) |-> r.dict[i].k]]

NotConnected(id) == [cam |-> id, failed |-> FALSE, connected |-> FALSE]

CtrlOf(cams, id) == cams[CHOOSE i \in 1..Len(cams) : cams[i].id = id].ctrl

\* for cam_id, preset_id in camera_presets.items(): goto_preset on a camera
\* that is in self.cameras (an exception is printed), a line for one that is not;
\* fates[id] is the fate of the calls made for camera id
RECURSIVE ApplyFrom(_, _, _, _, _)
ApplyFrom(cams, camera_presets, i, acc, fates) ==
    IF i > Len(camera_presets)
    THEN acc
    ELSE LET e == camera_presets[i]
         IN  ApplyFrom(cams, camera_presets, i + 1,
                 IF e.k \in Keys(cams)
                 THEN Turn(acc, e.k,
                           goto_preset(CtrlOf(cams, e.k), acc.privacy, fates[e.k], e.v))
                 ELSE BatchOutcome(acc.calls, acc.privacy,
                                   Append(acc.out, NotConnected(e.k))),
                 fates)

\* (mutant) self.cameras[cam_id] outside the try, without the membership test:
\* the first camera that is not registered ends the loop with a KeyError
RECURSIVE ApplyUntilMissing(_, _, _, _, _)
ApplyUntilMissing(cams, camera_presets, i, acc, fates) ==
    IF i > Len(camera_presets) \/ camera_presets[i].k \notin Keys(cams)
    THEN acc
    ELSE LET e == camera_presets[i]
         IN  ApplyUntilMissing(cams, camera_presets, i + 1,
                 Turn(acc, e.k,
                      goto_preset(CtrlOf(cams, e.k), acc.privacy, fates[e.k], e.v)),
                 fates)

apply_scene_keyError(cams, priv, file, scene_name, fates, io) ==
    LET r == ReadScenes(file, io)
        idle == BatchOutcome(<<>>, priv, <<>>)
        m == Get(r.dict, scene_name)
    IN  IF r.raised # NoError THEN [raised |-> r.raised, ret |-> "raised", b |-> idle]
        ELSE IF ~r.found THEN [raised |-> NoError, ret |-> "no_file", b |-> idle]
        ELSE IF ~Has(r.dict, scene_name)
        THEN [raised |-> NoError, ret |-> "no_scene", b |-> idle]
        ELSE [raised |-> IF \A i \in 1..Len(m) : m[i].k \in Keys(cams)
                         THEN NoError ELSE "KeyError",
              ret |-> "applied",
              b |-> ApplyUntilMissing(cams, m, 1, idle, fates)]

\* apply_scene: returns None on every path; ret names the path taken:
\* "no_file" and "no_scene" are the two early returns
apply_scene(cams, priv, file, scene_name, fates, io) ==
    LET r == ReadScenes(file, io)
        idle == BatchOutcome(<<>>, priv, <<>>)
    IN  IF r.raised # NoError THEN [raised |-> r.raised, ret |-> "raised", b |-> idle]
        ELSE IF ~r.found THEN [raised |-> NoError, ret |-> "no_file", b |-> idle]
        ELSE IF ~Has(r.dict, scene_name)
        THEN [raised |-> NoError, ret |-> "no_scene", b |-> idle]
        ELSE [raised |-> NoError, ret |-> "applied",
              b |-> ApplyFrom(cams, Get(r.dict, scene_name), 1, idle, fates)]

\* ------------------------------------------- operations on the scenes
CreateScene(scene_name, camera_presets, io) ==
    \E r \in {create_scene(scenes_file, scene_name, camera_presets, io)} :
        /\ scenes_file' = r.file
        /\ calls' = <<>>
        /\ out' = <<>>
        /\ last' = [op |-> "create_scene",
                    arg |-> [name |-> scene_name, presets |-> camera_presets],
                    raised |-> r.raised, ret |-> None]
        /\ UNCHANGED <<controller, cameras, privacy, threads>>

ListScenes(io) ==
    \E r \in {list_scenes(scenes_file, io)} :
        /\ calls' = <<>>
        /\ out' = r.printed
        /\ last' = [op |-> "list_scenes", arg |-> "", raised |-> r.raised,
                    ret |-> r.ret]
        /\ UNCHANGED <<controller, cameras, privacy, scenes_file, threads>>

ApplyScene(scene_name, fates, io) ==
    \E r \in {apply_scene(cameras, privacy, scenes_file, scene_name, fates, io)} :
        /\ privacy' = r.b.privacy
        /\ calls' = r.b.calls
        /\ out' = r.b.out
        /\ last' = [op |-> "apply_scene", arg |-> scene_name, raised |-> r.raised,
                    ret |-> r.ret]
        /\ UNCHANGED <<controller, cameras, scenes_file, threads>>

\* the mappings a caller passes: camera ids in any order, each once
RECURSIVE Mappings(_)
Mappings(ids) ==
    {<<>>} \cup UNION {{<<[k |-> id, v |-> p]>> \o m : m \in Mappings(ids \ {id})} :
                          <<id, p>> \in ids \X PresetIds}

StoreCamIds == {CamNames[i] : i \in 1..MaxSceneCams}

InitStore ==
    /\ controller = NewController("h1")
    /\ cameras = <<>>
    /\ privacy = [h \in Hosts |-> FALSE]
    /\ scenes_file = NoFile
    /\ calls = <<>>
    /\ out = <<>>
    /\ last = NoLast
    /\ threads = NoThreads

NextStore ==
    \/ \E name \in SceneNames, m \in Mappings(StoreCamIds), io \in IoFates :
          CreateScene(name, m, io)
    \/ \E io \in IoFates : ListScenes(io)

SpecStore == InitStore /\ [][NextStore]_vars

\* the three scene operations on one scenes.json, with no camera registered
NextScenes ==
    \/ \E name \in SceneNames, m \in Mappings(StoreCamIds), io \in IoFates :
          CreateScene(name, m, io)
    \/ \E io \in IoFates : ListScenes(io)
    \/ \E name \in SceneNames, io \in IoFates :
          ApplyScene(name, [id \in {} |-> [rd |-> TRUE, wr |-> TRUE, cmd |-> TRUE]], io)

SpecScenes == InitStore /\ [][NextScenes]_vars

\* scenes.json outlives the process: a run may start with no file, with a file
\* json.load rejects, or with any document; here one scene whose mapping names
\* any of three camera ids in a fixed order, whether or not the manager is
\* ever asked to add them
SceneOrder == <<CamNames[1], CamNames[3], CamNames[2]>>

RECURSIVE OrderedMappings(_)
OrderedMappings(order) ==
    IF order = <<>> THEN {<<>>}
    ELSE LET rest == OrderedMappings(Tail(order))
         IN  rest \cup {<<[k |-> Head(order), v |-> p]>> \o m : p \in PresetIds, m \in rest}

InitApply ==
    /\ controller = NewController("h1")
    /\ cameras = <<>>
    /\ privacy \in [Hosts -> BOOLEAN]
    /\ scenes_file \in {NoFile, BrokenFile} \cup
           {JsonFile(json_dump(<<[k |-> "day", v |-> m]>>)) : m \in OrderedMappings(SceneOrder)}
    /\ calls = <<>>
    /\ out = <<>>
    /\ last = NoLast
    /\ threads = NoThreads

\* the cameras apply_scene(scene_name) calls goto_preset on
Targets(scene_name, io) ==
    LET r == ReadScenes(scenes_file, io)
    IN  IF r.raised = NoError /\ Has(r.dict, scene_name)
        THEN {id \in Keys(cameras) : Has(Get(r.dict, scene_name), id)}
        ELSE {}

NextApply ==
    \/ \E i \in 1..NumCams, step \in {"ctor", "ok"} :
          AddCamera(CamNames[i], HostTable[i], step)
    \/ \E id \in CamIds : RemoveCamera(id)
    \/ \E name \in SceneNames, io \in {"ok", "read_error"} :
          \E fates \in {f \in [Targets(name, io) -> Fates] : Failures(f) <= MaxFailures} :
              ApplyScene(name, fates, io)

SpecApply == InitApply /\ [][NextApply]_vars

\* ----------------------------------------------- properties: the batches
BatchOps == {"calibrate_all", "enable_privacy_all", "disable_privacy_all",
             "set_auto_track_all", "goto_preset_all", "get_all_presets"}

\* the client command a batch sends once per camera
BatchClientOp(op) ==
    CASE op = "calibrate_all" -> "calibrateMotor"
      [] op = "enable_privacy_all" -> "setPrivacyMode"
      [] op = "disable_privacy_all" -> "setPrivacyMode"
      [] op = "set_auto_track_all" -> "setAutoTrackTarget"
      [] op = "goto_preset_all" -> "setPreset"
      [] op = "get_all_presets" -> "getPresets"
      [] OTHER -> "none"

\* the ids a batch answers for: the keys of the dict get_all_presets returns;
\* the other batches return None, their per-camera lines are taken instead
ReportedIds ==
    IF last.op = "get_all_presets"
    THEN DOMAIN last.ret
    ELSE {out[i].cam : i \in 1..Len(out)}

\* C1 (as stated): whatever id set the caller asks for, registered or not, the
\* batch answers for exactly that set.  The batch methods take no id set, so
\* the statement is put for every set that includes the registered ids.
C1_ResultCoversRequestedIds ==
    \A ids \in SUBSET CamIds :
        (last.op \in BatchOps /\ Keys(cameras) \subseteq ids) => ReportedIds = ids

\* C1 (amended): a batch answers for exactly the ids registered in the manager,
\* one line per camera whatever subset of them is unreachable, and
\* get_all_presets returns a dict keyed by exactly the registered ids, with the
\* empty dict for a camera whose call raised; an id that is not registered
\* gets no entry.
C1_ResultCoversRegisteredIds ==
    last.op \in BatchOps
        => /\ ReportedIds = Keys(cameras)
           /\ Len(out) = Len(cameras)
           /\ last.op = "get_all_presets"
                 => \A i \in 1..Len(cameras) :
                        last.ret[cameras[i].id] =
                            IF out[i].failed THEN EmptyDict
                            ELSE PresetsOf(cameras[i].ctrl)

\* C1 witness: get_all_presets over two cameras, one of them unreachable
C1_Witness ==
    /\ last.op = "get_all_presets"
    /\ Len(cameras) >= 2
    /\ \E i, j \in 1..Len(out) : out[i].failed /\ ~out[j].failed
    /\ DOMAIN last.ret = Keys(cameras)

\* the command calls of the last batch, in order
BatchCommands == SelectSeq(calls, LAMBDA c : c.op = BatchClientOp(last.op))

\* C2: a batch invokes its operation exactly once on every registered camera,
\* in registry order, also on those after a camera whose operation raised;
\* a camera is reported as failed exactly when its own command raised.
C2_FailureIsolation ==
    last.op \in BatchOps
        => /\ Len(BatchCommands) = Len(cameras)
           /\ Len(out) = Len(cameras)
           /\ \A i \in 1..Len(cameras) :
                  /\ BatchCommands[i].host = cameras[i].ctrl.host
                  /\ out[i].cam = cameras[i].id
                  /\ out[i].failed <=> ~BatchCommands[i].ok

\* C2 witness: the first camera's operation raised, the second one's went through
C2_Witness ==
    /\ last.op \in {"calibrate_all", "set_auto_track_all", "goto_preset_all"}
    /\ Len(cameras) >= 2
    /\ out[1].failed /\ ~out[2].failed
    /\ BatchCommands[2].ok

\* ------------------------------------------------ properties: the scenes
\* the names in a list of names
Elements(seq) == {seq[i] : i \in 1..Len(seq)}

\* C8: after a create_scene(S, M) that returns, list_scenes() reads the file
\* without error, returns S among the names and prints for S the mapping M,
\* whatever the file held before.
C8_CreateThenList ==
    (last.op = "create_scene" /\ last.raised = NoError)
        => LET l == list_scenes(scenes_file, "ok")
           IN  /\ l.raised = NoError
               /\ last.arg.name \in Elements(l.ret)
               /\ Has(l.printed, last.arg.name)
               /\ Get(l.printed, last.arg.name) = last.arg.presets

\* C8 witness: create_scene overwrote the older of two stored scenes
C8_Witness ==
    /\ last.op = "create_scene" /\ last.raised = NoError
    /\ scenes_file.kind = "json"
    /\ Len(scenes_file.text) = 2
    /\ scenes_file.text[1][1] = last.arg.name
    /\ last.arg.presets # <<>>

\* C9: a create_scene(S, M) that returns leaves every scene other than S in
\* the document with the mapping it had, and adds no scene other than S.
C9_CreateKeepsOtherScenes ==
    [][(last'.op = "create_scene" /\ last'.raised = NoError
            /\ scenes_file.kind = "json")
        => LET before == json_load(scenes_file.text)
               after == json_load(scenes_file'.text)
               S == last'.arg.name
           IN  /\ scenes_file'.kind = "json"
               /\ \A i \in 1..Len(before) :
                      before[i].k # S
                          => /\ Has(after, before[i].k)
                             /\ Get(after, before[i].k) = before[i].v
               /\ \A j \in 1..Len(after) : after[j].k # S => Has(before, after[j].k)]_vars

\* C9 witness: after the create another scene is stored, with a mapping
C9_Witness ==
    /\ last.op = "create_scene" /\ last.raised = NoError
    /\ scenes_file.kind = "json"
    /\ \E i \in 1..Len(scenes_file.text) :
          /\ scenes_file.text[i][1] # last.arg.name
          /\ scenes_file.text[i][2] # <<>>

\* the scene the last apply_scene went through, and its registered entries
AppliedScene == Get(json_load(scenes_file.text), last.arg)

RegisteredEntries == SelectSeq(AppliedScene, LAMBDA e : e.k \in Keys(cameras))

PresetCommands == SelectSeq(calls, LAMBDA c : c.op = "setPreset")

\* C10: apply_scene on a stored scene does not raise; it prints one line per
\* entry of the mapping, "not connected" exactly for the ids that are not in
\* the manager; it sends setPreset once per registered entry, in order, to
\* that camera and with the mapped preset id, and makes no client call to
\* any other camera.
C10_ApplySkipsUnregistered ==
    (last.op = "apply_scene" /\ last.ret = "applied")
        => /\ last.raised = NoError
           /\ Len(out) = Len(AppliedScene)
           /\ \A i \in 1..Len(out) :
                  /\ out[i].cam = AppliedScene[i].k
                  /\ out[i].connected <=> AppliedScene[i].k \in Keys(cameras)
                  /\ ~out[i].connected => ~out[i].failed
           /\ Len(PresetCommands) = Len(RegisteredEntries)
           /\ \A j \in 1..Len(PresetCommands) :
                  /\ PresetCommands[j].host = CtrlOf(cameras, RegisteredEntries[j].k).host
                  /\ PresetCommands[j].arg = RegisteredEntries[j].v
           /\ \A i \in 1..Len(calls) :
                  \E j \in 1..Len(RegisteredEntries) :
                      calls[i].host = CtrlOf(cameras, RegisteredEntries[j].k).host

\* C10 witness: a scene of three cameras, the middle one not registered; the
\* other two were sent their own, different presets
C10_Witness ==
    /\ last.op = "apply_scene" /\ last.ret = "applied"
    /\ Len(out) = 3
    /\ out[1].connected /\ ~out[2].connected /\ out[3].connected
    /\ ~out[1].failed /\ ~out[3].failed
    /\ Len(PresetCommands) = 2
    /\ PresetCommands[1].arg # PresetCommands[2].arg

\* ------------------------------------------------- properties: the guard
PositionalOps == {"move", "move_step", "goto_preset", "save_preset"}

\* the client command an operation of the controller ends with
ClientOpOf(op) ==
    CASE op = "move" -> "moveMotor"
      [] op = "move_step" -> "moveMotorStep"
      [] op = "goto_preset" -> "setPreset"
      [] op = "save_preset" -> "savePreset"
      [] op = "calibrate" -> "calibrateMotor"
      [] OTHER -> "none"

OpNames(cs) == [i \in 1..Len(cs) |-> cs[i].op]

\* the last operation sent its command to the client
CommandSent == calls # <<>> /\ calls[Len(calls)].op = ClientOpOf(last.op)

GuardedOrder(op) == <<"getPrivacyMode", "setPrivacyMode", "sleep", ClientOpOf(op)>>

\* C3 (as stated): whenever the device's privacy mode is on, a positional
\* command that a connected controller sends comes as [read privacy, write privacy off, settle
\* delay, command].
C3_OrderWheneverPrivacyOn ==
    [][(controller.tapo /\ privacy[controller.host] /\ last'.op \in PositionalOps
            /\ calls' # <<>> /\ calls'[Len(calls')].op = ClientOpOf(last'.op))
        => OpNames(calls') = GuardedOrder(last'.op)]_vars

\* C3 (amended): with privacy on, a positional command starts with the
\* privacy read; when the read and the privacy-off write both succeed the
\* calls are exactly [read, write off, sleep(1), command] and the device's
\* privacy is off afterwards; when the read fails the command follows it at
\* once, when the write fails the command follows the write, with no delay.
C3_OrderWhenGuardSucceeds ==
    [][(privacy[controller.host] /\ last'.op \in PositionalOps /\ calls' # <<>>)
        => LET cs == calls'
               cmd == ClientOpOf(last'.op)
           IN  /\ cs[1].op = "getPrivacyMode"
               /\ IF ~cs[1].ok
                  THEN OpNames(cs) = <<"getPrivacyMode", cmd>>
                  ELSE /\ cs[1].res = "on"
                       /\ cs[2].op = "setPrivacyMode" /\ cs[2].arg = FALSE
                       /\ IF cs[2].ok
                          THEN /\ OpNames(cs) = GuardedOrder(last'.op)
                               /\ cs[3].arg = SettleDelay
                               /\ ~privacy'[controller.host]
                          ELSE /\ OpNames(cs) = <<"getPrivacyMode", "setPrivacyMode", cmd>>
                               /\ privacy'[controller.host]]_vars

\* C3 witness: a positional command went out after read, write off and delay
C3_Witness ==
    /\ last.op \in PositionalOps
    /\ controller.tapo
    /\ OpNames(calls) = GuardedOrder(last.op)
    /\ calls[1].res = "on" /\ calls[2].ok /\ calls[4].ok

\* C4 (as stated): each of move, move_step, goto_preset, save_preset and
\* calibrate, on a connected controller, checks the privacy mode before its
\* command reaches the client.
C4_GuardBeforeEveryCommand ==
    (last.op \in PositionalOps \cup {"calibrate"} /\ controller.tapo /\ CommandSent)
        => calls[1].op = "getPrivacyMode"

\* C5 (as stated): a connected controller sends a positional command only if,
\* earlier in the same call, privacy was read as off or was successfully
\* written off.
C5_CommandOnlyAfterPrivacyOff ==
    (last.op \in PositionalOps /\ controller.tapo /\ CommandSent)
        => \/ calls[1].op = "getPrivacyMode" /\ calls[1].ok /\ calls[1].res = "off"
           \/ \E i \in 1..(Len(calls) - 1) :
                  calls[i].op = "setPrivacyMode" /\ calls[i].arg = FALSE /\ calls[i].ok

\* C5 (amended): a positional operation that passes validation attempts the
\* privacy read first and always sends its command as its last call; if the
\* read returned off or the privacy-off write succeeded, the device's privacy
\* is off when the command is sent; after a failed read or a failed write the
\* command is sent all the same.
C5_CommandAfterGuardAttempt ==
    (last.op \in PositionalOps /\ last.raised # ValueError)
        => /\ Len(calls) >= 2
           /\ calls[1].op = "getPrivacyMode"
           /\ CommandSent
           /\ \A i \in 1..(Len(calls) - 1) : calls[i].op # ClientOpOf(last.op)
           /\ (\/ calls[1].ok /\ calls[1].res = "off"
               \/ calls[2].op = "setPrivacyMode" /\ calls[2].ok)
                  => ~privacy[controller.host]

\* C5 witness: the command was sent although the privacy-off write failed
C5_Witness ==
    /\ last.op \in PositionalOps
    /\ controller.tapo
    /\ CommandSent
    /\ calls[1].ok /\ calls[1].res = "on"
    /\ calls[2].op = "setPrivacyMode" /\ ~calls[2].ok
    /\ privacy[controller.host]

\* C6: when the guard's privacy read fails, the positional command is the
\* very next call, and the operation raises exactly when that command fails.
C6_ReadFailureIsOptimistic ==
    (last.op \in PositionalOps /\ calls # <<>> /\ ~calls[1].ok)
        => /\ OpNames(calls) = <<"getPrivacyMode", ClientOpOf(last.op)>>
           /\ (last.raised = NoError) <=> calls[2].ok
           /\ last.raised \in {NoError, ClientError}

\* C6 witness: the read failed on a connected controller, the command succeeded
C6_Witness ==
    /\ last.op \in PositionalOps
    /\ controller.tapo
    /\ Len(calls) = 2 /\ ~calls[1].ok /\ calls[2].ok
    /\ last.raised = NoError

\* C7: move_step with an angle below 0 or at least 360 (-1, 360) raises
\* ValueError with no client call at all; with 0 <= angle < 360 (0, 359) it
\* reads the privacy mode and sends moveMotorStep(angle).
C7_StepAngleValidation ==
    last.op = "move_step"
        => IF last.arg < 0 \/ last.arg >= 360
           THEN last.raised = ValueError /\ calls = <<>>
           ELSE /\ last.raised # ValueError
                /\ calls # <<>>
                /\ calls[1].op = "getPrivacyMode"
                /\ calls[Len(calls)].op = "moveMotorStep"
                /\ calls[Len(calls)].arg = last.arg

\* C7 witness: move_step(360) was rejected
C7_Witness ==
    /\ last.op = "move_step" /\ last.arg = 360
    /\ last.raised = ValueError /\ calls = <<>>

\* C7 second witness: move_step(359) was sent with a connected controller
C7_WitnessAccepted ==
    /\ last.op = "move_step" /\ last.arg = 359
    /\ last.raised = NoError /\ calls[Len(calls)].ok

\* ---------------------------------------------- properties: the registry
DuplicateDeviceError == "DuplicateDeviceError"

\* the step is an add_camera under an id that was in the registry
DuplicateAdd == last'.op = "add_camera" /\ last'.arg[1] \in Keys(cameras)

\* C11 as stated: an add under an id that is in the registry fails with a
\* duplicate-device error and get(id) still gives the controller it gave before.
C11_DuplicateAddRejected ==
    [][DuplicateAdd =>
          /\ last'.raised = DuplicateDeviceError
          /\ cameras' = cameras
          /\ get_camera(cameras', last'.arg[1]) = get_camera(cameras, last'.arg[1])]_vars

\* C11 (amended): an add under an id that is in the registry raises nothing;
\* when the new controller connects it takes the place of the old one under
\* that id, at the same position, and the add returns True; when it does not
\* connect the add returns False and the registry is unchanged.
C11_DuplicateAddReplaces ==
    [][DuplicateAdd =>
          /\ last'.raised = NoError
          /\ [i \in 1..Len(cameras') |-> cameras'[i].id] =
                 [i \in 1..Len(cameras) |-> cameras[i].id]
          /\ \A i \in 1..Len(cameras) :
                 cameras[i].id # last'.arg[1] => cameras'[i] = cameras[i]
          /\ IF last'.ret
             THEN /\ get_camera(cameras', last'.arg[1]).host = last'.arg[2]
                  /\ get_camera(cameras', last'.arg[1]).tapo
             ELSE cameras' = cameras]_vars

\* an add under "entrance" connected while "entrance" was registered ahead of
\* "warehouse" (a new key would have gone last), and its controller took over
C11_Witness ==
    /\ last.op = "add_camera" /\ last.ret
    /\ last.arg = <<"entrance", "h2">>
    /\ Len(cameras) = 2
    /\ cameras[1].id = "entrance"
    /\ cameras[1].ctrl.host = "h2"

\* C19 as stated: every controller in the registry has its motor capability.
C19_RegisteredHasCapability ==
    \A i \in 1..Len(cameras) : cameras[i].ctrl.motor_capability

\* the add that just ran fetched the capability and the camera answered
CapabilityFetched ==
    \E j \in 1..Len(calls) : calls[j].op = "getMotorCapability" /\ calls[j].ok

\* C19 (amended): every controller in the registry has a client, made by a
\* connect() whose getBasicInfo succeeded; the controller an add has just
\* registered has its motor capability exactly when the getMotorCapability of
\* that connect() succeeded.
C19_RegisteredHasConnected ==
    /\ \A i \in 1..Len(cameras) : cameras[i].ctrl.tapo
    /\ (last.op = "add_camera" /\ last.ret) =>
           /\ last.arg[1] \in Keys(cameras)
           /\ calls[1].op = "getBasicInfo" /\ calls[1].ok
           /\ get_camera(cameras, last.arg[1]).motor_capability = CapabilityFetched

\* an add whose getMotorCapability raised: the camera is registered with no
\* capability, next to one that has it
C19_Witness ==
    /\ last.op = "add_camera" /\ last.ret
    /\ Len(cameras) = 2
    /\ ~CapabilityFetched
    /\ ~get_camera(cameras, last.arg[1]).motor_capability
    /\ \E i \in 1..2 : cameras[i].ctrl.motor_capability

\* ------------------------------------------------ properties: the patrol
\* the preset commands the patrol has sent so far
PatrolGotos == SelectSeq(calls, LAMBDA c : c.op = "setPreset")

PatrolFailed == calls # <<>> /\ calls[Len(calls)].op = "setPreset" /\ ~calls[Len(calls)].ok

\* C12: the k-th preset command of a patrol over [P1..Pn] is for
\* P((k-1) mod n + 1); every preset command that is followed by anything is
\* followed at once by the dwell sleep, so there is one dwell between two
\* preset commands; and the patrol is still running unless Ctrl+C was raised
\* or its last preset command raised.
C12_PatrolCyclicOrder ==
    InPatrol =>
        LET ids == Main.preset_ids
            n == Len(ids)
        IN  /\ \A k \in 1..Len(PatrolGotos) :
                   PatrolGotos[k].arg = ids[((k - 1) % n) + 1]
            /\ \A j \in 1..(Len(calls) - 1) :
                   calls[j].op = "setPreset" =>
                       /\ calls[j].ok
                       /\ calls[j + 1] = Sleep(controller, Main.interval)
            /\ Len(PatrolGotos) \in {Main.gotos - 1, Main.gotos}
            /\ (~Main.signal /\ ~PatrolFailed) => Main.phase \in Running \cup {"entry"}

\* a patrol over three presets that has wrapped: its fourth preset command
\* was sent and it dwells
C12_Witness ==
    /\ InPatrol
    /\ Main.preset_ids = <<"1", "2", "2">>
    /\ Len(PatrolGotos) = 4
    /\ PatrolGotos[4].arg = "1"
    /\ Main.phase = "dwell"

\* the patrol is over: start_patrol returned or was left by an exception
PatrolEnded == {"stopped", "failed", "interrupted"}

\* C13 as stated: once Ctrl+C was raised the patrol is over, and it was raised
\* at a step boundary (before a goto_preset or during the dwell), never while
\* the calls of a goto_preset were under way.
C13_CancelOnlyAtStepBoundary ==
    (InPatrol /\ Main.signal) =>
        /\ Main.phase \in PatrolEnded
        /\ Main.at # "call"

\* C13 (amended): once Ctrl+C was raised the patrol is over and no client call
\* is made and no device state changes any more, wherever the signal arrived
\* (a goto_preset that was under way is abandoned).
C13_NoCallAfterCancel ==
    [][/\ (InPatrol' /\ Main'.signal) => Main'.phase \in PatrolEnded
       /\ (InPatrol /\ Main.signal) => (calls' = calls /\ privacy' = privacy)]_vars

\* Ctrl+C arrived between the guard's privacy-off write and the settle delay:
\* the patrol stopped and the preset command of that goto_preset was not sent
C13_Witness ==
    /\ InPatrol /\ Main.signal
    /\ Main.phase = "stopped" /\ Main.at = "call"
    /\ calls # <<>>
    /\ calls[Len(calls)].op = "setPrivacyMode" /\ calls[Len(calls)].ok
    /\ Len(PatrolGotos) = Main.gotos - 1

\* C14: when the preset command of a goto_preset raises, the patrol is over
\* with that exception reaching the caller of start_patrol, and from then on
\* no client call is made: no retry of the step, no later preset.
C14_DeviceErrorEndsPatrol ==
    [][/\ (InPatrol' /\ PatrolFailed') =>
              /\ Main'.phase = "failed"
              /\ Main'.raised = ClientError
              /\ last'.op = "start_patrol" /\ last'.raised = ClientError
       /\ (InPatrol /\ Main.phase = "failed") => (calls' = calls /\ privacy' = privacy)]_vars

\* the second preset command of a patrol over three presets raised: the
\* patrol failed on it and the third preset was not visited
C14_Witness ==
    /\ InPatrol
    /\ Main.preset_ids = <<"1", "2", "2">>
    /\ Main.phase = "failed" /\ Main.raised = ClientError
    /\ Len(PatrolGotos) = 2
    /\ PatrolGotos[1].ok /\ ~PatrolGotos[2].ok

\* ------------------------------------- properties: scenes.json failures
\* C15: a create_scene that raises while a readable document is stored
\* leaves that document as it was, every scene with its mapping.
C15_FailedWriteKeepsDocument ==
    [][(/\ last'.op = "create_scene"
        /\ last'.raised # NoError
        /\ scenes_file.kind = "json")
       => (/\ scenes_file'.kind = "json"
           /\ json_load(scenes_file'.text) = json_load(scenes_file.text))]_vars

SceneOps == {"create_scene", "list_scenes", "apply_scene"}

\* C16 as stated: a scene operation that finds scenes.json missing or not
\* parseable ends with an exception.
C16_FailedReadIsSurfaced ==
    [][(last'.op \in SceneOps /\ scenes_file.kind \in {"missing", "broken"})
       => last'.raised # NoError]_vars

\* C16 (amended): a scene operation that finds scenes.json not parseable ends
\* with the exception of the read and changes nothing.  One that finds it
\* missing raises nothing for that: list_scenes returns [], apply_scene
\* prints that there is no file and sends nothing, and create_scene starts
\* from no scenes, so what it writes holds the new scene only.
C16_MissingFileIsEmpty ==
    [][last'.op \in SceneOps =>
          /\ scenes_file.kind = "broken" =>
                 /\ last'.raised \in {JSONDecodeError, OSError}
                 /\ scenes_file' = scenes_file
                 /\ calls' = <<>> /\ out' = <<>>
          /\ (scenes_file.kind = "missing" /\ last'.op = "list_scenes") =>
                 /\ last'.raised = NoError /\ last'.ret = <<>>
                 /\ scenes_file' = scenes_file
          /\ (scenes_file.kind = "missing" /\ last'.op = "apply_scene") =>
                 /\ last'.raised = NoError /\ last'.ret = "no_file"
                 /\ scenes_file' = scenes_file
                 /\ calls' = <<>> /\ out' = <<>>
          /\ (scenes_file.kind = "missing" /\ last'.op = "create_scene"
                 /\ last'.raised = NoError) =>
                 /\ scenes_file'.kind = "json"
                 /\ json_load(scenes_file'.text) =
                        <<[k |-> last'.arg.name, v |-> last'.arg.presets]>>]_vars

\* list_scenes ran with no scenes.json on disk and returned []
C16_Witness ==
    /\ last.op = "list_scenes" /\ last.raised = NoError
    /\ last.ret = <<>>
    /\ scenes_file.kind = "missing"

\* ------------------------------------------- properties: the REST server
\* thread u is inside a controller method: it has made a client call of it
\* and has another one to make
MidOperation(u) == threads[u].phase = "call"

\* this step is a client call made by thread t on a connected controller
ClientCallBy(t) ==
    /\ threads[t].phase \in {"run", "call"}
    /\ threads'[t] # threads[t]
    /\ threads[t].ctrl[1].tapo

\* C17: no thread makes a client call on a controller while another thread
\* is inside a method of the same controller, between two of its client calls.
C17_OneCommandInFlight ==
    [][\A t, u \in RestThreads :
          (t # u /\ ClientCallBy(t) /\ threads[u].ctrl = threads[t].ctrl)
              => ~MidOperation(u)]_vars

\* C20: when get_controller has returned a controller, the connect() made for
\* it returned True (connect() prints the failure line exactly when it
\* returns False, and `out` holds what the connects of the server printed).
C20_ReturnedControllerConnected ==
    (last.op = "get_controller" /\ last.raised = NoError) =>
        /\ out # <<>>
        /\ out[Len(out)].connected

\* ------------------------------------------ properties: a silent camera
\* C18: a batch over several cameras that was started returns, with a line
\* printed for every registered camera, whether or not each camera answers.
C18_BatchReturns ==
    (InBatch /\ Len(cameras) > 1) ~> (threads = NoThreads /\ Len(out) = Len(cameras))

====
